---- MODULE Spec2Model ----
(***************************************************************************)
(* Model of Drlordbasil/mycompany: the ChatSpace channel bus               *)
(* (agents/chat_space_env.py), the BaseAgent publish gate, tool registry,  *)
(* employee-store executors and run loop (agents/base_agent.py), and the   *)
(* agent configuration of main.py.                                         *)
(*                                                                         *)
(* The module holds several specifications over one set of variables:      *)
(*   SpecBus    - ChatSpace.send_message against one listen_to_channel     *)
(*   SpecClear  - SpecBus with clear_channel                               *)
(*   SpecGate   - BaseAgent.send_message under a clock                     *)
(*   SpecStore  - add_employee / update_employee of two threads, one file  *)
(*   SpecDirect - the executors of one agent called directly               *)
(*   SpecRun    - BaseAgent.run: message task, decide loop, tool dispatch  *)
(* A specification leaves the variables of the other parts unchanged.      *)
(***************************************************************************)
EXTENDS Integers, Sequences, FiniteSets, TLC

(***************************************************************************)
(* Bounds of the model.                                                    *)
(***************************************************************************)
MaxPublished == 3
MaxAttempts == 3
MaxTime == 3
MaxCalls == 3
MaxCycles == 1

(***************************************************************************)
(* Values taken from the source.                                           *)
(***************************************************************************)
\* chat_space_env.py:35, the channel names of the combobox; main.py:18-21
ChannelNames == {"General", "HR", "Management", "Tech"}

\* chat_space_env.py:75 (the operator) and main.py:18 (an agent)
Senders == {"@AnthonySnider", "HR_Agent"}

\* message texts that publishers draw from
Contents == {"hi", "bye"}

\* the channel the listener of SpecBus is attached to (main.py:20)
ListenChannel == "General"

\* main.py:17-22, the agents that are started: name -> (role, channel)
AgentNames ==
    {"HR_Agent", "Manager_Agent", "Operations_Agent1", "Operations_Agent2"}

\* the agents of SpecStore: the HR agent of main.py:18 and a second agent of
\* the same role started the same way (start_agent, main.py:11-13), the
\* configuration in which two threads may write the employee file
StoreAgents == {"HR_Agent", "HR_Agent2"}

Role(a) ==
    CASE a = "HR_Agent" -> "HR"
      [] a = "HR_Agent2" -> "HR"
      [] a = "Manager_Agent" -> "Management"
      [] a = "Operations_Agent1" -> "General"
      [] a = "Operations_Agent2" -> "General"

Channel(a) ==
    CASE a = "HR_Agent" -> "HR"
      [] a = "HR_Agent2" -> "HR"
      [] a = "Manager_Agent" -> "Management"
      [] a = "Operations_Agent1" -> "General"
      [] a = "Operations_Agent2" -> "Tech"

\* BaseAgent.TOOLSETS, the configured tool names of each role
TOOLSETS(role) ==
    CASE role = "HR" ->
            {"list_employees", "add_employee", "remove_employee",
             "generate_report", "log_activity", "update_employee"}
      [] role = "Management" ->
            {"list_employees", "generate_report", "log_activity",
             "broadcast_message", "view_department_stats"}
      [] role = "General" ->
            {"list_employees", "log_activity", "send_message",
             "change_channel", "view_channel_history"}

Roles == {"HR", "Management", "General"}

\* the attributes a BaseAgent instance has that hasattr/getattr can find: the
\* methods the class body defines and the fields __init__ has set by line 71
BaseAgentAttributes ==
    {"TOOLSETS", "_ensure_employee_file_exists", "_get_tools_for_role",
     "_read_employee_data", "_write_employee_data", "list_employees",
     "add_employee", "update_employee", "view_department_stats",
     "view_channel_history", "send_message", "run",
     "name", "role", "chat_space", "channel", "message_cooldown",
     "messages", "activity_log"}

\* hasattr(self, name)
HasAttr(name) == name \in BaseAgentAttributes

\* every tool name some role is configured with
ToolNames == UNION {TOOLSETS(r) : r \in Roles}

\* the tools dict built without regard to the role
GetToolsIgnoringRole(role) == {t \in ToolNames : HasAttr(t)}

\* BaseAgent._get_tools_for_role: the keys of the dict it returns
GetToolsForRole(role) == {t \in TOOLSETS(role) : HasAttr(t)}

\* self.tools, set once at base_agent.py:71
Tools(a) == GetToolsForRole(Role(a))

\* the departments of the employee file (_ensure_employee_file_exists)
Departments == {"HR", "Management", "Tech", "General"}

\* initial_data, base_agent.py:85-90
InitialData == [d \in Departments |-> <<>>]

\* argument values the callers of the store executors draw from; "" stands
\* for a missing (falsy) argument, "Sales" for a department not in the file
NameArgs == {"Alice", "Bob"}
DepartmentArgs == {"HR", "Sales"}
PositionArgs == {"Recruiter", ""}
NewPositionArgs == {"Manager", ""}

\* the sleep of the error branch, base_agent.py:287
BackoffDelay == 5

\* the default limit of view_channel_history, base_agent.py:206
DefaultLimit == 10

\* the operator's sender name (chat_space_env.py:75) and the texts it enters,
\* each once
User == "@AnthonySnider"
UserContents == {"hi"}

\* how long a client.chat call may take, in seconds
Latencies == {0, 2}

\* BaseAgent.__init__ default of message_cooldown, in seconds
MessageCooldown == 2

\* the None of last_message (base_agent.py:72-75)
NoneContent == "<None>"
NoneTime == -1

VARIABLES
    channels,         \* ChatSpace.channels: channel name -> list of messages
    serial,           \* number of message dicts created so far (object identity)
    lpc,              \* position of the listen_to_channel coroutine
    processed_count,  \* listen_to_channel's local processed_count
    new_messages,     \* listen_to_channel's local slice still to hand over
    delivered,        \* messages the callback has been called with, in order
    now,              \* datetime.now(), in whole seconds
    last_message,     \* agent -> BaseAgent.last_message
    attempts,         \* agent -> log of its send_message calls (history)
    file,             \* employees.json: [state, data]
    epc,              \* agent -> position inside a store executor
    employees,        \* agent -> the executor's local employees dict
    call,             \* agent -> the executor call in progress, or the
                      \* view_channel_history call last made (tool, arguments)
    result,           \* agent -> what its last executor call returned or raised
    added,            \* agent -> (name, department) its add_employee calls wrote (history)
    ncalls,           \* number of executor calls made so far
    started,          \* the agents main.py has started
    rpc,              \* agent -> position of its run() coroutine
    mtask,            \* agent -> state of message_task
    messages,         \* agent -> BaseAgent.messages, the transcript
    tool_calls,       \* agent -> tool calls of the response still to process
    cycles            \* agent -> decide cycles begun

chatVars == <<channels, serial>>

listenVars == <<lpc, processed_count, new_messages, delivered>>

gateVars == <<now, last_message, attempts>>

storeVars == <<file, epc, employees, call, result, added, ncalls>>

runVars == <<started, rpc, mtask, messages, tool_calls, cycles>>

vars == <<chatVars, listenVars, gateVars, storeVars, runVars>>

(***************************************************************************)
(* Python list helpers.                                                    *)
(***************************************************************************)
\* lst[k-1:], an off-by-one start (and Python's lst[-1:] for k = 0)
SliceFromOffByOne(lst, k) ==
    IF k = 0
    THEN (IF lst = <<>> THEN <<>> ELSE <<lst[Len(lst)]>>)
    ELSE SubSeq(lst, k, Len(lst))

\* lst[k:] for 0 <= k
SliceFrom(lst, k) == SubSeq(lst, k + 1, Len(lst))

(***************************************************************************)
(* ChatSpace (agents/chat_space_env.py)                                    *)
(* display_message only drives the Tk text widget, which is outside the    *)
(* model; it is taken to return normally.                                  *)
(***************************************************************************)
\* the dict built at chat_space_env.py:62; id stands for the identity of the
\* dict object, which is distinct for every call
NewMessage(sender, content) ==
    [sender |-> sender, content |-> content, id |-> serial + 1]

\* ChatSpace.send_message: list.append is one step under the interpreter lock
ChatSpaceSendMessage(channel, sender, content) ==
    /\ channels' = [channels EXCEPT ![channel] =
                        Append(@, NewMessage(sender, content))]
    /\ serial' = serial + 1

\* a publish from any thread: send_user_message of the GUI, or an agent
Publish ==
    \E ch \in ChannelNames, s \in Senders, c \in Contents :
        /\ serial < MaxPublished
        /\ ChatSpaceSendMessage(ch, s, c)
        /\ UNCHANGED <<listenVars, gateVars, storeVars, runVars>>

\* listen_to_channel is called (lines 82-84): the cursor is a fresh local
ListenStart ==
    /\ lpc = "start"
    /\ processed_count' = 0
    /\ lpc' = "take"
    /\ UNCHANGED <<new_messages, delivered>>
    /\ UNCHANGED <<chatVars, gateVars, storeVars, runVars>>

\* listen_to_channel lines 86-87: take the list and copy the slice
ListenTake ==
    /\ lpc = "take"
    /\ new_messages' = SliceFrom(channels[ListenChannel], processed_count)
    /\ lpc' = "deliver"
    /\ UNCHANGED <<processed_count, delivered>>
    /\ UNCHANGED <<chatVars, gateVars, storeVars, runVars>>

\* listen_to_channel lines 88-89: one iteration of the for loop
ListenCallback ==
    /\ lpc = "deliver"
    /\ new_messages # <<>>
    /\ delivered' = Append(delivered, Head(new_messages))
    /\ new_messages' = Tail(new_messages)
    /\ UNCHANGED <<lpc, processed_count>>
    /\ UNCHANGED <<chatVars, gateVars, storeVars, runVars>>

\* listen_to_channel line 90: processed_count = len(messages), where messages
\* is the live list of the channel; line 91 then starts the sleep
ListenAdvance ==
    /\ lpc = "deliver"
    /\ new_messages = <<>>
    /\ processed_count' = Len(channels[ListenChannel])
    /\ lpc' = "sleep"
    /\ UNCHANGED <<new_messages, delivered>>
    /\ UNCHANGED <<chatVars, gateVars, storeVars, runVars>>

\* listen_to_channel line 91: the sleep ends, line 85 loops
ListenWake ==
    /\ lpc = "sleep"
    /\ lpc' = "take"
    /\ UNCHANGED <<processed_count, new_messages, delivered>>
    /\ UNCHANGED <<chatVars, gateVars, storeVars, runVars>>

\* ChatSpace.clear_channel, called from any thread: list.clear() empties the
\* list object in place
ClearChannel ==
    \E ch \in ChannelNames :
        /\ channels' = [channels EXCEPT ![ch] = <<>>]
        /\ UNCHANGED serial
        /\ UNCHANGED <<listenVars, gateVars, storeVars, runVars>>

(***************************************************************************)
(* BaseAgent.send_message: the publish gate (base_agent.py:217-236)        *)
(***************************************************************************)
\* line 219: the executor's own permission check
SendAllowed(a) == "send_message" \in Tools(a)

\* a cooldown check that never fires
CooldownActiveNever(a) == FALSE

\* lines 225-226: a timestamp is recorded and less than the cooldown has passed
CooldownActive(a) ==
    /\ last_message[a].timestamp # NoneTime
    /\ now - last_message[a].timestamp < MessageCooldown

\* a duplicate check that never fires
IsDuplicateNever(a, content) == FALSE

\* line 230, negated: the content equals the last published content
IsDuplicate(a, content) == content = last_message[a].content

\* the number of messages of sender a over all channels of chs
SentBy(chs, a) ==
    Cardinality(UNION {{<<ch, k>> : k \in {j \in 1..Len(chs[ch]) :
                                              chs[ch][j].sender = a}} :
                       ch \in ChannelNames})

\* the decide cycle agent a is in (0 before the loop, or when a does not run)
CycleOf(a) == IF a \in DOMAIN cycles THEN cycles[a] ELSE 0

\* BaseAgent.send_message as one step of the agent: the body has no
\* suspension point. The attempts entry is history: the call's content and
\* time, whether the cooldown had elapsed and the content was new when it was
\* made, the count of the agent's messages in the channels before and after
\* it, last_message after it, and the decide cycle it was made in.
BaseAgentSendMessage(a, target_channel, content) ==
    /\ IF ~SendAllowed(a)
       THEN UNCHANGED <<chatVars, last_message>>
       ELSE IF CooldownActive(a)
       THEN UNCHANGED <<chatVars, last_message>>
       ELSE IF ~IsDuplicate(a, content)
       THEN /\ ChatSpaceSendMessage(target_channel, a, content)
            /\ last_message' = [last_message EXCEPT ![a] =
                                   [content |-> content, timestamp |-> now]]
       ELSE UNCHANGED <<chatVars, last_message>>
    /\ attempts' = [attempts EXCEPT ![a] = Append(@,
                       [content |-> content,
                        time |-> now,
                        eligible |-> ~CooldownActive(a) /\ ~IsDuplicate(a, content),
                        before |-> SentBy(channels, a),
                        after |-> SentBy(channels', a),
                        last_after |-> last_message'[a],
                        cycle |-> CycleOf(a)])]

\* datetime.now() advances
Tick ==
    /\ now < MaxTime
    /\ now' = now + 1
    /\ UNCHANGED <<chatVars, listenVars, last_message, attempts, storeVars,
                   runVars>>

TotalAttempts ==
    Len(attempts["HR_Agent"]) + Len(attempts["Manager_Agent"])
    + Len(attempts["Operations_Agent1"]) + Len(attempts["Operations_Agent2"])

\* a publish attempt of an agent on its channel (run, lines 241, 283, 294)
GateSend ==
    \E a \in AgentNames, c \in Contents :
        /\ TotalAttempts < MaxAttempts
        /\ BaseAgentSendMessage(a, Channel(a), c)
        /\ UNCHANGED <<listenVars, now, storeVars, runVars>>

(***************************************************************************)
(* The employee store (base_agent.py:107-183)                              *)
(* file.state is "doc" when the file holds a JSON document (file.data),    *)
(* "empty" after open(path, 'w') has truncated it and before the writer    *)
(* has flushed, and "corrupt" when it holds bytes json.load rejects.       *)
(* json.dump and json.load of these dicts of strings are inverse, so the   *)
(* document stands for its text. asyncio.Lock() at lines 110 and 120 makes *)
(* a new lock per call, which nothing else holds: it excludes no one.      *)
(***************************************************************************)
NoCall == [tool |-> "<None>", name |-> "", department |-> "", limit |-> 0]

\* a str an executor returns or a turn carries: its text (f-string fields
\* left as written) and, for json.dumps results, the value that was dumped
Text(t) == [text |-> t, data |-> <<>>]

Json(t, value) == [text |-> t, data |-> <<value>>]

\* an exception leaving an executor
Raise(exception) == [text |-> "raise", data |-> <<exception>>]

IsRaise(r) == r.text = "raise"

\* the None a function without return value gives
NoneValue == Text("<None>")

\* _read_employee_data: the document, or {} when json.load raises
ReadEmployeeData ==
    IF file.state = "doc"
    THEN [ok |-> TRUE, data |-> file.data]
    ELSE [ok |-> FALSE, data |-> InitialData]

\* department in employees, for what _read_employee_data returned
DepartmentIn(r, department) == r.ok /\ department \in Departments

\* a duplicate check that finds nothing
HasEmployeeNever(doc, department, name) == FALSE

\* any(emp["name"] == name for emp in employees[department])
HasEmployee(doc, department, name) ==
    \E i \in 1..Len(doc[department]) : doc[department][i].name = name

\* an executor returns text without touching the file
ReturnText(a, text) ==
    /\ result' = [result EXCEPT ![a] = Text(text)]
    /\ UNCHANGED <<file, epc, employees, call, added>>

\* an executor goes on to _write_employee_data with its modified dict
StartWrite(a, tool, name, department, doc) ==
    /\ employees' = [employees EXCEPT ![a] = doc]
    /\ call' = [call EXCEPT ![a] =
                   [tool |-> tool, name |-> name, department |-> department,
                    limit |-> 0]]
    /\ epc' = [epc EXCEPT ![a] = "write_open"]
    /\ UNCHANGED <<file, result, added>>

\* add_employee lines 140-158: permission, validation, read, duplicate check
\* and the append to the local dict. The read of the file is the one access to
\* shared state, so the lines are one step.
AddEmployee(a, name, department, position) ==
    /\ epc[a] = "idle"
    /\ LET r == ReadEmployeeData
       IN  IF "add_employee" \notin Tools(a)
           THEN ReturnText(a, "Access Denied: You do not have permission to add employees.")
           ELSE IF name = "" \/ department = "" \/ position = ""
           THEN ReturnText(a, "Error: All fields (name, department, position) are required.")
           ELSE IF ~DepartmentIn(r, department)
           THEN ReturnText(a, "Error: Invalid department '{department}'")
           ELSE IF HasEmployee(r.data, department, name)
           THEN ReturnText(a, "Error: Employee '{name}' already exists in {department}")
           ELSE StartWrite(a, "add_employee", name, department,
                    [r.data EXCEPT ![department] = Append(@,
                        [name |-> name, position |-> position, hire_date |-> now])])

\* the dict after the for loop of update_employee has met the record of name
WithPosition(doc, department, name, new_position) ==
    LET i == CHOOSE k \in 1..Len(doc[department]) :
                /\ doc[department][k].name = name
                /\ \A j \in 1..(k - 1) : doc[department][j].name # name
    IN  IF new_position # ""
        THEN [doc EXCEPT ![department][i].position = new_position]
        ELSE doc

\* update_employee lines 167-177 and 183
UpdateEmployee(a, name, department, new_position) ==
    /\ epc[a] = "idle"
    /\ LET r == ReadEmployeeData
       IN  IF "update_employee" \notin Tools(a)
           THEN ReturnText(a, "Access Denied: You do not have permission to update employees.")
           ELSE IF ~DepartmentIn(r, department)
           THEN ReturnText(a, "Error: Department '{department}' not found")
           ELSE IF HasEmployee(r.data, department, name)
           THEN StartWrite(a, "update_employee", name, department,
                    WithPosition(r.data, department, name, new_position))
           ELSE ReturnText(a, "Error: Employee '{name}' not found in {department}")

\* _write_employee_data line 121: open(path, 'w') truncates the file
WriteOpen(a) ==
    /\ epc[a] = "write_open"
    /\ file' = [state |-> "empty", data |-> InitialData]
    /\ epc' = [epc EXCEPT ![a] = "write_dump"]
    /\ UNCHANGED <<employees, call, result, added, ncalls>>

\* what the file holds after a writer has flushed doc at offset 0: its
\* document when the file was empty; when another writer has flushed since
\* this one truncated, the document if its text is at least as long as what is
\* there, else its text followed by the tail of the other (not JSON). The
\* lengths depend on the field texts, so both outcomes are kept.
FlushOutcomes(doc) ==
    IF file.state = "empty"
    THEN {[state |-> "doc", data |-> doc]}
    ELSE {[state |-> "doc", data |-> doc],
          [state |-> "corrupt", data |-> InitialData]}

\* what add_employee / update_employee do after the write returned True:
\* await self.log_activity(...) at lines 161 and 179, then the confirmation
AfterWrite(tool) ==
    IF ~HasAttr("log_activity")
    THEN Raise("AttributeError")
    ELSE IF tool = "add_employee"
    THEN Text("Successfully added employee {name} to {department} as {position}.")
    ELSE Text("Successfully updated employee {name}.")

\* _write_employee_data lines 122-123: json.dump and the close that flushes,
\* then the rest of the executor
WriteClose(a) ==
    /\ epc[a] = "write_dump"
    /\ file' \in FlushOutcomes(employees[a])
    /\ epc' = [epc EXCEPT ![a] = "idle"]
    /\ result' = [result EXCEPT ![a] = AfterWrite(call[a].tool)]
    /\ added' = [added EXCEPT ![a] =
                    IF call[a].tool = "add_employee"
                    THEN @ \cup {[name |-> call[a].name,
                                  department |-> call[a].department]}
                    ELSE @]
    /\ call' = [call EXCEPT ![a] = NoCall]
    /\ UNCHANGED <<employees, ncalls>>

\* a thread calls add_employee on its agent
CallAddEmployee ==
    \E a \in StoreAgents, name \in NameArgs, department \in DepartmentArgs,
       position \in PositionArgs :
        /\ ncalls < MaxCalls
        /\ ncalls' = ncalls + 1
        /\ AddEmployee(a, name, department, position)
        /\ UNCHANGED <<chatVars, listenVars, gateVars, runVars>>

\* a thread calls update_employee on its agent
CallUpdateEmployee ==
    \E a \in StoreAgents, name \in NameArgs, department \in DepartmentArgs,
       new_position \in NewPositionArgs :
        /\ ncalls < MaxCalls
        /\ ncalls' = ncalls + 1
        /\ UpdateEmployee(a, name, department, new_position)
        /\ UNCHANGED <<chatVars, listenVars, gateVars, runVars>>

StoreWriteOpen ==
    \E a \in StoreAgents :
        WriteOpen(a) /\ UNCHANGED <<chatVars, listenVars, gateVars, runVars>>

StoreWriteClose ==
    \E a \in StoreAgents :
        WriteClose(a) /\ UNCHANGED <<chatVars, listenVars, gateVars, runVars>>

(***************************************************************************)
(* Executors that only read (base_agent.py:128-136, 185-215)               *)
(***************************************************************************)
\* lst[-limit:]
LastN(lst, limit) ==
    IF limit = 0 THEN lst
    ELSE IF limit > 0
    THEN SubSeq(lst, IF Len(lst) > limit THEN Len(lst) - limit + 1 ELSE 1, Len(lst))
    ELSE SliceFrom(lst, IF -limit > Len(lst) THEN Len(lst) ELSE -limit)

\* list_employees() without department, after the permission check
ListEmployees == Json("json.dumps(employees)", ReadEmployeeData)

\* the stats dict of view_department_stats() without department
DepartmentStats ==
    LET r == ReadEmployeeData
    IN  [d \in (IF r.ok THEN Departments ELSE {}) |->
            [total_employees |-> Len(r.data[d]),
             positions |->
                [pos \in {r.data[d][i].position : i \in 1..Len(r.data[d])} |->
                    Cardinality({i \in 1..Len(r.data[d]) :
                                    r.data[d][i].position = pos})]]]

ViewDepartmentStats == Json("json.dumps(stats)", DepartmentStats)

\* view_channel_history(limit) of agent a
ViewChannelHistory(a, limit) ==
    Json("json.dumps({channel, messages})",
         [channel |-> Channel(a),
          messages |-> LastN(channels[Channel(a)], limit)])

(***************************************************************************)
(* The language model (ollama.AsyncClient.chat): any response, or an error *)
(***************************************************************************)
\* the arguments mapping of a tool call; kind names the keys it has
NoArgs ==
    [kind |-> "none", name |-> "", department |-> "", position |-> "",
     target_channel |-> "", content |-> ""]

EmployeeArgs ==
    [kind |-> "name,department,position", name |-> "Alice",
     department |-> "HR", position |-> "Recruiter",
     target_channel |-> "", content |-> ""]

UpdateArgs ==
    [kind |-> "name,department,new_position", name |-> "Alice",
     department |-> "HR", position |-> "Manager",
     target_channel |-> "", content |-> ""]

MessageArgs ==
    [kind |-> "target_channel,content", name |-> "", department |-> "",
     position |-> "", target_channel |-> "General", content |-> "hi"]

ToolCall(name, args) == [name |-> name, args |-> args]

\* the tool calls a response may hold: every tool name without arguments,
\* and the store and message tools with the arguments their signature takes
LLMToolCalls ==
    {ToolCall(n, NoArgs) : n \in ToolNames}
    \cup {ToolCall("add_employee", EmployeeArgs),
          ToolCall("update_employee", UpdateArgs),
          ToolCall("send_message", MessageArgs)}

\* the tool_calls lists of a response: none, one call, or two calls
ToolCallLists ==
    {<<>>}
    \cup {<<c>> : c \in LLMToolCalls}
    \cup {<<c, d>> : c, d \in {ToolCall("list_employees", NoArgs),
                               ToolCall("remove_employee", NoArgs)}}

\* **args matches the signature of the executor (else TypeError)
ArgsFit(name, args) ==
    CASE name = "add_employee" -> args.kind = "name,department,position"
      [] name = "update_employee" -> args.kind = "name,department,new_position"
      [] name = "send_message" -> args.kind = "target_channel,content"
      [] OTHER -> args.kind = "none"

(***************************************************************************)
(* BaseAgent.run (base_agent.py:238-297)                                   *)
(***************************************************************************)
\* f"{self.name} is online."
OnlineText(a) ==
    CASE a = "HR_Agent" -> "HR_Agent is online."
      [] a = "Manager_Agent" -> "Manager_Agent is online."
      [] a = "Operations_Agent1" -> "Operations_Agent1 is online."
      [] a = "Operations_Agent2" -> "Operations_Agent2 is online."

\* response['message'] as appended at line 265
AssistantTurn(calls) ==
    [role |-> "assistant", content |-> Text("ok"), tool_calls |-> calls]

\* the dict appended at lines 277-280
ToolTurn(function_response) ==
    [role |-> "tool", content |-> function_response, tool_calls |-> <<>>]

DenialTurn == ToolTurn(Text("Unauthorized tool usage."))

\* where run() is suspended in an await that yields to the event loop
Suspended == {"chat1", "chat2", "sleep", "backoff"}

\* line 241: the online notice goes through the publish gate
RunOnline(a) ==
    /\ rpc[a] = "online"
    /\ BaseAgentSendMessage(a, Channel(a), OnlineText(a))
    /\ rpc' = [rpc EXCEPT ![a] = "create_task"]
    /\ UNCHANGED <<listenVars, now, storeVars>>
    /\ UNCHANGED <<started, mtask, messages, tool_calls, cycles>>

\* line 248: asyncio.create_task(message_handler()); the loop is entered
RunCreateTask(a) ==
    /\ rpc[a] = "create_task"
    /\ mtask' = [mtask EXCEPT ![a] = "pending"]
    /\ rpc' = [rpc EXCEPT ![a] = "chat1"]
    /\ UNCHANGED <<chatVars, listenVars, gateVars, storeVars>>
    /\ UNCHANGED <<started, messages, tool_calls, cycles>>

\* lines 244-245, the first run of message_task: the argument
\* self.receive_message is evaluated before listen_to_channel is called, and
\* an attribute the instance does not have raises AttributeError in the task
MessageHandler(a) ==
    /\ mtask[a] = "pending"
    /\ rpc[a] \in Suspended
    /\ mtask' = [mtask EXCEPT ![a] =
                    IF HasAttr("receive_message") THEN "listening" ELSE "failed"]
    /\ UNCHANGED <<chatVars, listenVars, gateVars, storeVars>>
    /\ UNCHANGED <<started, rpc, messages, tool_calls, cycles>>

\* line 252 raises (connection refused, timeout, ...): lines 285-287
Chat1Raise(a) ==
    /\ rpc[a] = "chat1"
    /\ cycles[a] < MaxCycles
    /\ cycles' = [cycles EXCEPT ![a] = @ + 1]
    /\ rpc' = [rpc EXCEPT ![a] = "backoff"]
    /\ UNCHANGED <<chatVars, listenVars, gateVars, storeVars>>
    /\ UNCHANGED <<started, mtask, messages, tool_calls>>

\* lines 252-267: the response arrives and is appended to the transcript
Chat1Reply(a) ==
    /\ rpc[a] = "chat1"
    /\ cycles[a] < MaxCycles
    /\ cycles' = [cycles EXCEPT ![a] = @ + 1]
    /\ \E calls \in ToolCallLists, latency \in Latencies :
          /\ now' = now + latency
          /\ messages' = [messages EXCEPT ![a] = Append(@, AssistantTurn(calls))]
          /\ tool_calls' = [tool_calls EXCEPT ![a] = calls]
          /\ rpc' = [rpc EXCEPT ![a] = IF calls = <<>> THEN "chat2" ELSE "tools"]
    /\ UNCHANGED <<chatVars, listenVars, last_message, attempts, storeVars>>
    /\ UNCHANGED <<started, mtask>>

\* lines 277-280 and the end of one iteration of the for loop at line 268
AppendToolTurn(a, function_response) ==
    /\ messages' = [messages EXCEPT ![a] = Append(@, ToolTurn(function_response))]
    /\ tool_calls' = [tool_calls EXCEPT ![a] = Tail(@)]
    /\ rpc' = [rpc EXCEPT ![a] =
                  IF Tail(tool_calls[a]) = <<>> THEN "chat2" ELSE "tools"]

\* an exception leaves the for loop: line 285
ToolRaised(a) ==
    /\ tool_calls' = [tool_calls EXCEPT ![a] = <<>>]
    /\ rpc' = [rpc EXCEPT ![a] = "backoff"]
    /\ UNCHANGED messages

\* lines 274-275: the name is not a key of self.tools
ToolDenied(a) ==
    /\ rpc[a] = "tools"
    /\ Head(tool_calls[a]).name \notin Tools(a)
    /\ AppendToolTurn(a, Text("Unauthorized tool usage."))
    /\ UNCHANGED <<chatVars, listenVars, gateVars, storeVars>>
    /\ UNCHANGED <<started, mtask, cycles>>

\* line 273 with arguments the executor's signature does not take
ToolTypeError(a) ==
    /\ rpc[a] = "tools"
    /\ Head(tool_calls[a]).name \in Tools(a)
    /\ ~ArgsFit(Head(tool_calls[a]).name, Head(tool_calls[a]).args)
    /\ ToolRaised(a)
    /\ UNCHANGED <<chatVars, listenVars, gateVars, storeVars>>
    /\ UNCHANGED <<started, mtask, cycles>>

\* line 273 for list_employees, view_department_stats, view_channel_history
ToolReadOnly(a) ==
    /\ rpc[a] = "tools"
    /\ LET c == Head(tool_calls[a])
       IN  /\ c.name \in Tools(a)
           /\ ArgsFit(c.name, c.args)
           /\ c.name \in {"list_employees", "view_department_stats",
                          "view_channel_history"}
           /\ AppendToolTurn(a,
                 CASE c.name = "list_employees" -> ListEmployees
                   [] c.name = "view_department_stats" -> ViewDepartmentStats
                   [] c.name = "view_channel_history" ->
                          ViewChannelHistory(a, DefaultLimit))
    /\ ncalls' = ncalls + 1
    /\ UNCHANGED <<chatVars, listenVars, gateVars>>
    /\ UNCHANGED <<file, epc, employees, call, result, added>>
    /\ UNCHANGED <<started, mtask, cycles>>

\* line 273 for send_message, which returns None
ToolSendMessage(a) ==
    /\ rpc[a] = "tools"
    /\ LET c == Head(tool_calls[a])
       IN  /\ c.name \in Tools(a)
           /\ ArgsFit(c.name, c.args)
           /\ c.name = "send_message"
           /\ BaseAgentSendMessage(a, c.args.target_channel, c.args.content)
    /\ AppendToolTurn(a, NoneValue)
    /\ ncalls' = ncalls + 1
    /\ UNCHANGED <<listenVars, now>>
    /\ UNCHANGED <<file, epc, employees, call, result, added>>
    /\ UNCHANGED <<started, mtask, cycles>>

\* line 273 for add_employee and update_employee: the executor up to its
\* return or its call of _write_employee_data
ToolStore(a) ==
    /\ rpc[a] = "tools"
    /\ LET c == Head(tool_calls[a])
       IN  /\ c.name \in Tools(a)
           /\ ArgsFit(c.name, c.args)
           /\ c.name \in {"add_employee", "update_employee"}
           /\ IF c.name = "add_employee"
              THEN AddEmployee(a, c.args.name, c.args.department, c.args.position)
              ELSE UpdateEmployee(a, c.args.name, c.args.department, c.args.position)
    /\ IF epc'[a] = "idle"
       THEN AppendToolTurn(a, result'[a])
       ELSE /\ rpc' = [rpc EXCEPT ![a] = "exec"]
            /\ UNCHANGED <<messages, tool_calls>>
    /\ ncalls' = ncalls + 1
    /\ UNCHANGED <<chatVars, listenVars, gateVars>>
    /\ UNCHANGED <<started, mtask, cycles>>

\* the executor opens the file for writing
RunWriteOpen(a) ==
    /\ rpc[a] = "exec"
    /\ WriteOpen(a)
    /\ UNCHANGED <<chatVars, listenVars, gateVars, runVars>>

\* the executor writes, closes and returns or raises
RunWriteClose(a) ==
    /\ rpc[a] = "exec"
    /\ WriteClose(a)
    /\ IF IsRaise(result'[a])
       THEN ToolRaised(a)
       ELSE AppendToolTurn(a, result'[a])
    /\ UNCHANGED <<chatVars, listenVars, gateVars>>
    /\ UNCHANGED <<started, mtask, cycles>>

\* line 282 raises: lines 285-287
Chat2Raise(a) ==
    /\ rpc[a] = "chat2"
    /\ rpc' = [rpc EXCEPT ![a] = "backoff"]
    /\ UNCHANGED <<chatVars, listenVars, gateVars, storeVars>>
    /\ UNCHANGED <<started, mtask, messages, tool_calls, cycles>>

\* lines 282-283: the final response arrives and its content goes through
\* the publish gate; line 290 starts the sleep
Chat2Reply(a) ==
    /\ rpc[a] = "chat2"
    /\ \E content \in Contents :
          BaseAgentSendMessage(a, Channel(a), content)
    /\ rpc' = [rpc EXCEPT ![a] = "sleep"]
    /\ UNCHANGED <<listenVars, now, storeVars>>
    /\ UNCHANGED <<started, mtask, messages, tool_calls, cycles>>

\* line 290: asyncio.sleep(self.message_cooldown) ends, line 250 loops
RunSleep(a) ==
    /\ rpc[a] = "sleep"
    /\ now' = now + MessageCooldown
    /\ rpc' = [rpc EXCEPT ![a] = "chat1"]
    /\ UNCHANGED <<chatVars, listenVars, last_message, attempts, storeVars>>
    /\ UNCHANGED <<started, mtask, messages, tool_calls, cycles>>

\* lines 287-288: asyncio.sleep(5) ends, continue
RunBackoff(a) ==
    /\ rpc[a] = "backoff"
    /\ now' = now + BackoffDelay
    /\ rpc' = [rpc EXCEPT ![a] = "chat1"]
    /\ UNCHANGED <<chatVars, listenVars, last_message, attempts, storeVars>>
    /\ UNCHANGED <<started, mtask, messages, tool_calls, cycles>>

\* message_task.cancel() that has no effect
TaskCancelSkipped(task) == task

\* message_task.cancel(), line 296: a task that is not done is cancelled
TaskCancel(task) ==
    IF task \in {"pending", "listening"} THEN "cancelled" ELSE task

\* run() is cancelled while it waits in an await of the loop: CancelledError
\* is no Exception, so neither handler takes it (lines 285, 292); the finally
\* block cancels message_task and run ends
RunCancelled(a) ==
    /\ rpc[a] \in Suspended
    /\ mtask' = [mtask EXCEPT ![a] = TaskCancel(@)]
    /\ rpc' = [rpc EXCEPT ![a] = "stopped"]
    /\ UNCHANGED <<chatVars, listenVars, gateVars, storeVars>>
    /\ UNCHANGED <<started, messages, tool_calls, cycles>>

(***************************************************************************)
(* Executors called directly on an agent (a test or another caller that    *)
(* goes past the decide loop), one call after the other.                   *)
(***************************************************************************)
Executors ==
    {"list_employees", "add_employee", "update_employee",
     "view_department_stats", "view_channel_history", "send_message"}

\* the limit arguments callers of view_channel_history draw from
Limits == {0, 1, 2}

\* the string of the first return of each executor (lines 131, 141, 168, 188,
\* 209, 220)
AccessDenied(tool) ==
    Text(CASE tool = "list_employees" ->
                 "Access Denied: You do not have permission to list employees."
           [] tool = "add_employee" ->
                 "Access Denied: You do not have permission to add employees."
           [] tool = "update_employee" ->
                 "Access Denied: You do not have permission to update employees."
           [] tool = "view_department_stats" ->
                 "Access Denied: You do not have permission to view department stats."
           [] tool = "view_channel_history" ->
                 "Access Denied: You do not have permission to view channel history."
           [] tool = "send_message" ->
                 "Access Denied: You do not have permission to send messages.")

\* list_employees() of agent a, lines 130-136
ListEmployeesOf(a) ==
    IF "list_employees" \notin Tools(a)
    THEN AccessDenied("list_employees")
    ELSE ListEmployees

\* view_department_stats() of agent a, lines 187-204
ViewDepartmentStatsOf(a) ==
    IF "view_department_stats" \notin Tools(a)
    THEN AccessDenied("view_department_stats")
    ELSE ViewDepartmentStats

\* view_channel_history(limit) of agent a, lines 208-215
ViewChannelHistoryOf(a, limit) ==
    IF "view_channel_history" \notin Tools(a)
    THEN AccessDenied("view_channel_history")
    ELSE ViewChannelHistory(a, limit)

\* what send_message returns: the denial string, or None
SendMessageReturn(a) ==
    IF ~SendAllowed(a) THEN AccessDenied("send_message") ELSE NoneValue

\* the agent the executors are called on
Callee == DOMAIN epc

\* a call of an executor that reads only: it returns in the same step
DirectReturn(a, function_response) ==
    /\ epc[a] = "idle"
    /\ ncalls < MaxCalls
    /\ ncalls' = ncalls + 1
    /\ result' = [result EXCEPT ![a] = function_response]
    /\ UNCHANGED <<file, epc, employees, added>>
    /\ UNCHANGED <<chatVars, listenVars, gateVars, runVars>>

DirectListEmployees(a) ==
    DirectReturn(a, ListEmployeesOf(a)) /\ UNCHANGED call

DirectViewDepartmentStats(a) ==
    DirectReturn(a, ViewDepartmentStatsOf(a)) /\ UNCHANGED call

DirectViewChannelHistory(a, limit) ==
    /\ DirectReturn(a, ViewChannelHistoryOf(a, limit))
    /\ call' = [call EXCEPT ![a] =
                   [tool |-> "view_channel_history", name |-> "",
                    department |-> "", limit |-> limit]]

DirectAddEmployee(a) ==
    /\ ncalls < MaxCalls
    /\ ncalls' = ncalls + 1
    /\ \E name \in NameArgs, department \in DepartmentArgs,
          position \in PositionArgs :
            AddEmployee(a, name, department, position)
    /\ UNCHANGED <<chatVars, listenVars, gateVars, runVars>>

DirectUpdateEmployee(a) ==
    /\ ncalls < MaxCalls
    /\ ncalls' = ncalls + 1
    /\ \E name \in NameArgs, department \in DepartmentArgs,
          new_position \in NewPositionArgs :
            UpdateEmployee(a, name, department, new_position)
    /\ UNCHANGED <<chatVars, listenVars, gateVars, runVars>>

DirectSendMessage(a) ==
    /\ epc[a] = "idle"
    /\ ncalls < MaxCalls
    /\ ncalls' = ncalls + 1
    /\ \E content \in Contents :
          BaseAgentSendMessage(a, Channel(a), content)
    /\ result' = [result EXCEPT ![a] = SendMessageReturn(a)]
    /\ UNCHANGED <<file, epc, employees, call, added>>
    /\ UNCHANGED <<listenVars, now, runVars>>

DirectWriteOpen(a) ==
    WriteOpen(a) /\ UNCHANGED <<chatVars, listenVars, gateVars, runVars>>

DirectWriteClose(a) ==
    WriteClose(a) /\ UNCHANGED <<chatVars, listenVars, gateVars, runVars>>

\* send_user_message: the operator enters a text on the agent's channel
OperatorPublish ==
    \E a \in Callee, content \in UserContents :
        /\ serial < MaxPublished
        /\ ChatSpaceSendMessage(Channel(a), User, content)
        /\ UNCHANGED <<listenVars, gateVars, storeVars, runVars>>

\* send_user_message: the operator enters a text on a started agent's channel
UserPublish ==
    \E a \in started, content \in UserContents :
        /\ \A k \in 1..Len(channels[Channel(a)]) :
              ~(/\ channels[Channel(a)][k].sender = User
                /\ channels[Channel(a)][k].content = content)
        /\ ChatSpaceSendMessage(Channel(a), User, content)
        /\ UNCHANGED <<listenVars, gateVars, storeVars, runVars>>

(***************************************************************************)
(* Initial states: after ChatSpace() and the BaseAgent(...) constructions. *)
(***************************************************************************)
InitChatSpace ==
    /\ channels = [ch \in ChannelNames |-> <<>>]
    /\ serial = 0

\* listen_to_channel not yet called
InitListener ==
    /\ lpc = "start"
    /\ processed_count = 0
    /\ new_messages = <<>>
    /\ delivered = <<>>

\* BaseAgent.__init__ lines 72-75, for the agents of set S
InitGate(S) ==
    /\ now = 0
    /\ last_message = [a \in S |->
                          [content |-> NoneContent, timestamp |-> NoneTime]]
    /\ attempts = [a \in S |-> <<>>]

\* the file as _ensure_employee_file_exists leaves it, no call in progress
InitStore(S) ==
    /\ file = [state |-> "doc", data |-> InitialData]
    /\ epc = [a \in S |-> "idle"]
    /\ employees = [a \in S |-> InitialData]
    /\ call = [a \in S |-> NoCall]
    /\ result = [a \in S |-> NoneValue]
    /\ added = [a \in S |-> {}]
    /\ ncalls = 0

\* run() not yet entered by the agents of S
InitRun(S) ==
    /\ started = S
    /\ rpc = [a \in S |-> "online"]
    /\ mtask = [a \in S |-> "none"]
    /\ messages = [a \in S |-> <<>>]
    /\ tool_calls = [a \in S |-> <<>>]
    /\ cycles = [a \in S |-> 0]

(***************************************************************************)
(* SpecBus: publishers against one listener, no clear_channel.             *)
(***************************************************************************)
InitBus ==
    /\ InitChatSpace /\ InitListener
    /\ InitGate({}) /\ InitStore({}) /\ InitRun({})

NextBus ==
    \/ Publish
    \/ ListenStart
    \/ ListenTake
    \/ ListenCallback
    \/ ListenAdvance
    \/ ListenWake

SpecBus == InitBus /\ [][NextBus]_vars

(***************************************************************************)
(* Claims about the channel bus.                                           *)
(***************************************************************************)
\* the position of message m in the listened channel (0 when absent)
PositionOf(m) ==
    IF \E k \in 1..Len(channels[ListenChannel]) : channels[ListenChannel][k] = m
    THEN CHOOSE k \in 1..Len(channels[ListenChannel]) :
            channels[ListenChannel][k] = m
    ELSE 0

WasDelivered(m) == \E i \in 1..Len(delivered) : delivered[i] = m

\* C1: no skipped message. Without clear_channel the cursor only grows and
\* every slice starts at the cursor, so a message is delivered on a later
\* poll only if the cursor has not passed it: whenever the listener has set
\* the cursor and gone to sleep, every message below the cursor has been
\* handed to the callback.
C1_NoSkippedMessage ==
    lpc = "sleep" =>
        \A k \in 1..processed_count :
            WasDelivered(channels[ListenChannel][k])

\* C2: no replay and in-order delivery. The cursor never decreases, and the
\* callback gets messages of the channel at strictly increasing positions
\* (so none twice, and in the order they were appended).
DeliveredInOrder ==
    /\ \A i \in 1..Len(delivered) : PositionOf(delivered[i]) # 0
    /\ \A i, j \in 1..Len(delivered) :
          i < j => PositionOf(delivered[i]) < PositionOf(delivered[j])

C2_NoReplayInOrder ==
    /\ []DeliveredInOrder
    /\ [][processed_count' >= processed_count]_vars

\* C2 witness: two messages delivered over two different polls
C2_Witness ==
    /\ Len(delivered) >= 2
    /\ processed_count >= 1
    /\ lpc = "sleep"
    /\ processed_count = Len(channels[ListenChannel])

\* C12: fresh cursor on start. A listener started on a channel that holds
\* n messages starts with its cursor at n, so that none of the n messages is
\* handed to the callback.
C12_FreshCursorAtLength ==
    [][(lpc = "start" /\ lpc' = "take")
          => processed_count' = Len(channels[ListenChannel])]_vars

(***************************************************************************)
(* SpecClear: SpecBus with clear_channel calls.                            *)
(***************************************************************************)
NextClear ==
    \/ Publish
    \/ ClearChannel
    \/ ListenStart
    \/ ListenTake
    \/ ListenCallback
    \/ ListenAdvance
    \/ ListenWake

SpecClear == InitBus /\ [][NextClear]_vars

\* the listener takes its slice (lines 86-87)
TakeStep == lpc = "take" /\ lpc' = "deliver"

\* C11: clear is a channel restart. A poll that finds its cursor beyond the
\* end of the channel, which only a clear_channel since the cursor was set
\* can bring about, starts again at zero: the slice it takes is the whole
\* channel, so the messages published after the clear are delivered
\* starting with the first one.
C11_ClearIsRestart ==
    [][(TakeStep /\ processed_count > Len(channels[ListenChannel]))
          => new_messages' = channels[ListenChannel]]_vars

(***************************************************************************)
(* SpecGate: publish attempts of the agents under a clock.                 *)
(***************************************************************************)
InitGateSpec ==
    /\ InitChatSpace /\ InitListener
    /\ InitGate(AgentNames) /\ InitStore({}) /\ InitRun({})

NextGate ==
    \/ Tick
    \/ GateSend

SpecGate == InitGateSpec /\ [][NextGate]_vars

(***************************************************************************)
(* Claims about the publish gate.                                          *)
(***************************************************************************)
\* consecutive attempts i, i+1 of agent a
Pairs(a) == 1..(Len(attempts[a]) - 1)

\* C3: cooldown. Two publish attempts of an agent of any role less than the
\* cooldown apart, the first made when nothing stood against it (cooldown
\* elapsed or nothing published, content new), leave exactly one more message
\* of that agent in the channels.
C3_Cooldown ==
    \A a \in AgentNames : \A i \in Pairs(a) :
        LET e1 == attempts[a][i]
            e2 == attempts[a][i + 1]
        IN  (e1.eligible /\ e2.time - e1.time < MessageCooldown)
                => e2.after - e1.before = 1

\* C4: dedup. Two consecutive publish attempts of an agent with the same
\* content, whatever the time between them, leave at most one more message
\* of that agent in the channels.
C4_Dedup ==
    \A a \in AgentNames : \A i \in Pairs(a) :
        LET e1 == attempts[a][i]
            e2 == attempts[a][i + 1]
        IN  e1.content = e2.content => e2.after - e1.before <= 1

\* C4 witness: the first attempt was published, and the same content comes
\* again after the cooldown has elapsed and is not published
C4_Witness ==
    \E a \in AgentNames : \E i \in Pairs(a) :
        LET e1 == attempts[a][i]
            e2 == attempts[a][i + 1]
        IN  /\ e1.content = e2.content
            /\ e2.time - e1.time >= MessageCooldown
            /\ e1.after = e1.before + 1
            /\ e2.after = e1.after

\* C5: accepted replies are published. For an agent of any role, an attempt
\* made when the cooldown has elapsed (or nothing was published yet) with a
\* content other than last_message.content appends exactly one message and
\* makes last_message {content, now}.
C5_AcceptedPublished ==
    \A a \in AgentNames : \A i \in 1..Len(attempts[a]) :
        LET e == attempts[a][i]
        IN  e.eligible =>
                /\ e.after = e.before + 1
                /\ e.last_after = [content |-> e.content, timestamp |-> e.time]

\* agent a makes a publish attempt in this step
AttemptStep(a) == Len(attempts'[a]) = Len(attempts[a]) + 1

\* the content of the attempt made in this step
AttemptContent(a) == attempts'[a][Len(attempts'[a])].content

\* C20: a rejected publish attempt changes nothing. An attempt made while
\* less than the cooldown has passed since last_message.timestamp, or with
\* the content of last_message, modifies no channel and leaves last_message
\* (content and timestamp) as it was; and an attempt appends to a channel in
\* the same step in which it sets last_message to {content, now}, and only
\* then.
C20_RejectedChangesNothing ==
    [][\A a \in AgentNames :
          AttemptStep(a) =>
              /\ ((/\ last_message[a].timestamp # NoneTime
                   /\ now - last_message[a].timestamp < MessageCooldown)
                  \/ AttemptContent(a) = last_message[a].content)
                     => /\ channels' = channels
                        /\ last_message' = last_message
              /\ channels' # channels <=> last_message'[a] # last_message[a]
              /\ channels' # channels =>
                     /\ SentBy(channels', a) = SentBy(channels, a) + 1
                     /\ last_message'[a] =
                            [content |-> AttemptContent(a), timestamp |-> now]]_vars

\* C20 witness: an attempt is published, one made a second later with new
\* content is rejected, and one made when the cooldown counted from the
\* first has elapsed is published
C20_Witness ==
    \E a \in AgentNames :
        /\ Len(attempts[a]) = 3
        /\ attempts[a][1].after = attempts[a][1].before + 1
        /\ attempts[a][2].time = attempts[a][1].time + 1
        /\ attempts[a][2].content # attempts[a][1].content
        /\ attempts[a][2].after = attempts[a][2].before
        /\ attempts[a][3].time = attempts[a][1].time + MessageCooldown
        /\ attempts[a][3].after = attempts[a][3].before + 1

(***************************************************************************)
(* SpecStore: two HR agents, each in its own thread, on one employee file. *)
(***************************************************************************)
InitStoreSpec ==
    /\ InitChatSpace /\ InitListener
    /\ InitGate({}) /\ InitStore(StoreAgents) /\ InitRun({})

NextStore ==
    \/ CallAddEmployee
    \/ CallUpdateEmployee
    \/ StoreWriteOpen
    \/ StoreWriteClose

SpecStore == InitStoreSpec /\ [][NextStore]_vars

(***************************************************************************)
(* Claims about the employee store.                                        *)
(***************************************************************************)
\* the file holds a record of that name in that department
InStore(name, department) ==
    /\ file.state = "doc"
    /\ department \in Departments
    /\ \E i \in 1..Len(file.data[department]) :
          file.data[department][i].name = name

\* C8: store atomicity. Once two agents have both finished add_employee
\* calls that wrote distinct names to the same department, both records are
\* in the store.
C8_NoLostUpdate ==
    \A a, b \in StoreAgents :
        (a # b /\ epc[a] = "idle" /\ epc[b] = "idle") =>
            \A x \in added[a], y \in added[b] :
                (x.department = y.department /\ x.name # y.name) =>
                    /\ InStore(x.name, x.department)
                    /\ InStore(y.name, y.department)

\* no department of the file holds two records with the same name
NoDuplicateNames ==
    file.state = "doc" =>
        \A d \in Departments : \A i, j \in 1..Len(file.data[d]) :
            i # j => file.data[d][i].name # file.data[d][j].name

DuplicateError ==
    Text("Error: Employee '{name}' already exists in {department}")

\* C9 as stated: no department ever holds two records with the same name,
\* and every add_employee call made when the store holds that name in that
\* department returns the duplicate error and leaves the store unchanged.
C9_DuplicateRejection ==
    /\ []NoDuplicateNames
    /\ [][\A a \in StoreAgents, name \in NameArgs,
             department \in DepartmentArgs, position \in PositionArgs :
             (AddEmployee(a, name, department, position)
                  /\ InStore(name, department))
                 => /\ result'[a] = DuplicateError
                    /\ file' = file
                    /\ epc'[a] = "idle"]_vars

\* C9 amended: the same, for calls of an agent whose role has add_employee
\* that give a non-empty position.
C9_DuplicateRejectionValidCall ==
    /\ []NoDuplicateNames
    /\ [][\A a \in StoreAgents, name \in NameArgs,
             department \in DepartmentArgs, position \in PositionArgs :
             (AddEmployee(a, name, department, position)
                  /\ InStore(name, department)
                  /\ position # ""
                  /\ "add_employee" \in Tools(a))
                 => /\ result'[a] = DuplicateError
                    /\ file' = file
                    /\ epc'[a] = "idle"]_vars

\* C9 witness: a call has returned the duplicate error for a name the store
\* holds, while the other agent has added a different name
C9_Witness ==
    \E a \in StoreAgents, name \in NameArgs :
        /\ result[a] = DuplicateError
        /\ epc[a] = "idle"
        /\ InStore(name, "HR")
        /\ Len(file.data["HR"]) = 2

AddConfirmation ==
    Text("Successfully added employee {name} to {department} as {position}.")

\* the number of records of that name in that department of document doc
RecordsOf(doc, department, name) ==
    Cardinality({i \in 1..Len(doc[department]) : doc[department][i].name = name})

\* C16: add_employee succeeds with a confirmation. No add_employee or
\* update_employee call ever raises, and when an add_employee call that
\* passed the permission, field, department and duplicate checks has written
\* the file, it returns the confirmation string and the document it wrote
\* holds exactly one record of that name in the department.
C16_AddEmployeeConfirms ==
    /\ [](\A a \in StoreAgents : ~IsRaise(result[a]))
    /\ [][\A a \in StoreAgents :
             (epc[a] = "write_dump" /\ epc'[a] = "idle"
                  /\ call[a].tool = "add_employee")
                 => /\ result'[a] = AddConfirmation
                    /\ file'.state = "doc" =>
                          RecordsOf(file'.data, call[a].department, call[a].name) = 1]_vars

(***************************************************************************)
(* SpecRun: one agent of main.py runs, the operator writes on its channel. *)
(***************************************************************************)
InitRunSpec ==
    /\ InitChatSpace /\ InitListener
    /\ \E a \in AgentNames :
          InitRun({a}) /\ InitGate({a}) /\ InitStore({a})

NextRun ==
    \/ UserPublish
    \/ \E a \in started : RunOnline(a)
    \/ \E a \in started : RunCreateTask(a)
    \/ \E a \in started : MessageHandler(a)
    \/ \E a \in started : Chat1Raise(a)
    \/ \E a \in started : Chat1Reply(a)
    \/ \E a \in started : ToolDenied(a)
    \/ \E a \in started : ToolTypeError(a)
    \/ \E a \in started : ToolReadOnly(a)
    \/ \E a \in started : ToolSendMessage(a)
    \/ \E a \in started : ToolStore(a)
    \/ \E a \in started : RunWriteOpen(a)
    \/ \E a \in started : RunWriteClose(a)
    \/ \E a \in started : Chat2Raise(a)
    \/ \E a \in started : Chat2Reply(a)
    \/ \E a \in started : RunSleep(a)
    \/ \E a \in started : RunBackoff(a)
    \/ \E a \in started : RunCancelled(a)

SpecRun == InitRunSpec /\ [][NextRun]_vars

(***************************************************************************)
(* SpecDirect: the executors of one agent of main.py called directly while *)
(* the operator writes on the agent's channel.                             *)
(***************************************************************************)
InitDirectSpec ==
    /\ InitChatSpace /\ InitListener /\ InitRun({})
    /\ \E a \in AgentNames : InitGate({a}) /\ InitStore({a})

NextDirect ==
    \/ OperatorPublish
    \/ \E a \in Callee : DirectListEmployees(a)
    \/ \E a \in Callee : DirectViewDepartmentStats(a)
    \/ \E a \in Callee, limit \in Limits : DirectViewChannelHistory(a, limit)
    \/ \E a \in Callee : DirectAddEmployee(a)
    \/ \E a \in Callee : DirectUpdateEmployee(a)
    \/ \E a \in Callee : DirectSendMessage(a)
    \/ \E a \in Callee : DirectWriteOpen(a)
    \/ \E a \in Callee : DirectWriteClose(a)

SpecDirect == InitDirectSpec /\ [][NextDirect]_vars

\* a direct call of the executor named tool on agent a
DirectCall(a, tool) ==
    CASE tool = "list_employees" -> DirectListEmployees(a)
      [] tool = "view_department_stats" -> DirectViewDepartmentStats(a)
      [] tool = "view_channel_history" ->
             \E limit \in Limits : DirectViewChannelHistory(a, limit)
      [] tool = "add_employee" -> DirectAddEmployee(a)
      [] tool = "update_employee" -> DirectUpdateEmployee(a)
      [] tool = "send_message" -> DirectSendMessage(a)

\* C17: second gate in the executors. Each of the six executors, called
\* directly on an agent whose role's tool set does not contain it, returns
\* its 'Access Denied' string and leaves the employee file, every channel
\* and the agent's last_message as they were, with no write begun.
C17_SecondGate ==
    [][\A a \in Callee, tool \in Executors :
          (DirectCall(a, tool) /\ tool \notin TOOLSETS(Role(a)))
              => /\ result'[a] = AccessDenied(tool)
                 /\ file' = file
                 /\ epc' = epc
                 /\ channels' = channels
                 /\ last_message' = last_message]_vars

\* C17 witness: an agent without add_employee in its role's set has been
\* refused, with a message in its channel
C17_Witness ==
    \E a \in Callee :
        /\ "add_employee" \notin TOOLSETS(Role(a))
        /\ result[a] = AccessDenied("add_employee")
        /\ channels[Channel(a)] # <<>>
        /\ file = [state |-> "doc", data |-> InitialData]

\* the last min(limit, n) elements of a list of n elements
LastMin(lst, limit) ==
    LET n == Len(lst)
        m == IF limit < n THEN limit ELSE n
    IN  SubSeq(lst, n - m + 1, n)

\* C18: view_channel_history(limit), for every limit from 0 up, returns
\* exactly the last min(limit, n) messages of the agent's channel of n
\* messages, oldest first; limit = 0 returns no messages.
C18_HistoryLastMin ==
    [][\A a \in Callee, limit \in Limits :
          (DirectViewChannelHistory(a, limit)
               /\ "view_channel_history" \in TOOLSETS(Role(a)))
              => result'[a].data[1].messages
                     = LastMin(channels[Channel(a)], limit)]_vars

\* C18 for limits from 1 up
C18_HistoryLastMinPositive ==
    [][\A a \in Callee, limit \in Limits \ {0} :
          (DirectViewChannelHistory(a, limit)
               /\ "view_channel_history" \in TOOLSETS(Role(a)))
              => result'[a].data[1].messages
                     = LastMin(channels[Channel(a)], limit)]_vars

(***************************************************************************)
(* Claims about the decide loop and the message task.                      *)
(***************************************************************************)
\* a step of agent a's run() coroutine
RunStep(a) ==
    \/ rpc'[a] # rpc[a]
    \/ tool_calls'[a] # tool_calls[a]
    \/ messages'[a] # messages[a]

\* agent a's run() processes the tool call at the head of tool_calls
ToolCallStep(a) == rpc[a] = "tools" /\ RunStep(a)

\* the step answers the tool call with the denial turn
AnsweredWithDenial(a) == messages'[a] = Append(messages[a], DenialTurn)

\* C6: role gating in the decide loop. For every role and every tool name
\* not in TOOLSETS[role], processing a tool call of that name appends the
\* turn 'Unauthorized tool usage.' to the transcript, calls no executor and
\* leaves the employee file and every channel as they are.
C6_RoleGating ==
    [][\A a \in started :
          (ToolCallStep(a) /\ Head(tool_calls[a]).name \notin TOOLSETS(Role(a)))
              => /\ AnsweredWithDenial(a)
                 /\ ncalls' = ncalls
                 /\ epc' = epc
                 /\ file' = file
                 /\ channels' = channels]_vars

\* C6 witness: the transcript ends with the denial turn, in answer to a call
\* of a tool that is not in the role's set
C6_Witness ==
    \E a \in started :
        /\ Len(messages[a]) = 2
        /\ messages[a][2] = DenialTurn
        /\ Len(messages[a][1].tool_calls) = 1
        /\ messages[a][1].tool_calls[1].name \notin TOOLSETS(Role(a))
        /\ rpc[a] = "chat2"

\* C7: the role-to-tool mapping is exact. Processing a tool call hands it
\* to an executor, rather than answering with the denial turn, if and only if
\* its name is in TOOLSETS[role].
C7_ExactMapping ==
    [][\A a \in started :
          ToolCallStep(a) =>
              (~AnsweredWithDenial(a)
                  <=> Head(tool_calls[a]).name \in TOOLSETS(Role(a)))]_vars

\* C10: channel messages reach the transcript. User turns enter the
\* transcript only through the callback of the listen task, so the claim
\* needs that task alive (scheduled or polling) for as long as the decide
\* loop runs.
C10_ListenTaskKeepsPolling ==
    \A a \in started :
        rpc[a] \in {"chat1", "tools", "exec", "chat2", "sleep", "backoff"}
            => mtask[a] \in {"pending", "listening"}

\* the failed decide cycle of agent a, now in its back-off, has appended a
\* message of the agent to a channel
FailedCyclePublished(a) ==
    /\ rpc[a] = "backoff"
    /\ \E i \in 1..Len(attempts[a]) :
          /\ attempts[a][i].cycle = cycles[a]
          /\ attempts[a][i].after > attempts[a][i].before

\* C13: transient failures are retried. When a decide cycle has raised, the
\* agent is in its back-off and, unless it is cancelled, its next step ends
\* the fixed delay and starts another decide cycle; and the failed cycle has
\* appended no message of the agent to any channel.
C13_TransientRetried ==
    /\ [][\A a \in started :
             (rpc[a] = "backoff" /\ RunStep(a) /\ rpc'[a] # "stopped")
                 => /\ rpc'[a] = "chat1"
                    /\ now' = now + BackoffDelay]_vars
    /\ [](\A a \in started : ~FailedCyclePublished(a))

\* C14: fatal failures stop the agent. An exception that is not a failure of
\* a backend (the TypeError of a tool call whose arguments do not fit, the
\* AttributeError of a method that does not exist) is raised in the tool phase
\* of a cycle; the step that raises it does not take the agent to the
\* back-off and another cycle, but to the offline notice and the end of run.
C14_FatalStops ==
    [][\A a \in started :
          (rpc[a] \in {"tools", "exec"} /\ RunStep(a)) => rpc'[a] # "backoff"]_vars

\* the index of the last assistant turn of a transcript (0 when none)
LastAssistant(transcript) ==
    IF \E i \in 1..Len(transcript) : transcript[i].role = "assistant"
    THEN CHOOSE i \in 1..Len(transcript) :
            /\ transcript[i].role = "assistant"
            /\ \A j \in (i + 1)..Len(transcript) : transcript[j].role # "assistant"
    ELSE 0

\* the turns after the last assistant turn answer its tool calls one for
\* one and in order: as many tool turns as calls, the k-th being the denial
\* exactly when the k-th call names no tool of the agent
ToolTurnsMatchCalls(a) ==
    LET i == LastAssistant(messages[a])
    IN  i # 0 =>
            LET calls == messages[a][i].tool_calls
            IN  /\ Len(messages[a]) - i = Len(calls)
                /\ \A k \in 1..Len(calls) :
                      /\ messages[a][i + k].role = "tool"
                      /\ (messages[a][i + k] = DenialTurn
                              <=> calls[k].name \notin Tools(a))

\* C15: one tool turn per tool call. Once the loop over the tool calls of a
\* response is over, whether the calls were authorized or not and whatever
\* their arguments, the transcript holds exactly one tool turn for each call
\* of the response, in the order of the calls.
C15_OneToolTurnPerCall ==
    \A a \in started :
        rpc[a] \notin {"tools", "exec"} => ToolTurnsMatchCalls(a)

\* C19: stopping cancels the listener. Whenever run() of an agent has
\* ended, its message task is not scheduled and not polling: it has been
\* cancelled or had ended before.
C19_StoppedCancelsListener ==
    \A a \in started :
        rpc[a] = "stopped" => mtask[a] \notin {"pending", "listening"}

\* C19 witness: run() was cancelled in its loop and the finally block has
\* cancelled a message task that was not done
C19_Witness ==
    \E a \in started : rpc[a] = "stopped" /\ mtask[a] = "cancelled"

====
